---- MODULE Spec2Model ----
(***************************************************************************)
(* A model of the keyword-to-content-brief pipeline of the SEO content     *)
(* generator: SEOEngine (app/seo_engine.py), FreeAIService                 *)
(* (app/free_ai_service.py) and calculate_analysis_score (app/utils.py).   *)
(*                                                                         *)
(* Text is modelled as a sequence of string atoms whose concatenation is   *)
(* the Python string: a keyword is a sequence of one-character atoms, a    *)
(* literal of the source is one atom.  Floats with two decimals are        *)
(* modelled in hundredths (1.0 is 100).                                    *)
(***************************************************************************)
EXTENDS Integers, Sequences, FiniteSets, TLC

VARIABLES
    pc,              \* position of the run_full_analysis invocation
    keyword,         \* its argument
    content_outline, \* locals of run_full_analysis, in order of assignment
    schema_markup,
    serp_results,
    entities,
    tfidf_keywords,
    exc,             \* the exception in flight inside the try block
    raisedIn,        \* the stage that raised it (history)
    result,          \* what the invocation handed to its caller
    content_templates, \* SEOEngine.content_templates
    schema_templates   \* SEOEngine.schema_templates

VARIABLES
    ai_pc,           \* position of the generate_content_outline invocation
    ai_token,        \* FreeAIService.huggingface_token is set
    ai_keyword,      \* its arguments
    ai_entities,
    ai_keywords,
    ai_failure,      \* how the remote tier failed (history)
    ai_remoteCalls,  \* requests.post calls made by the invocation
    ai_localCalls,   \* _generate_local_outline calls made by the invocation
    ai_exc,          \* the exception in flight
    ai_raisedIn,     \* the statement that raised it (history)
    ai_result        \* what the invocation handed to its caller

aiVars == <<ai_pc, ai_token, ai_keyword, ai_entities, ai_keywords, ai_failure,
            ai_remoteCalls, ai_localCalls, ai_exc, ai_raisedIn, ai_result>>

VARIABLES
    mk_fn,           \* the markup synthesizer under call: "engine" or "ai"
    mk_args,         \* the arguments every call is made with
    mk_types,        \* what random.choice picked in each call (history)
    mk_outs          \* what each call handed back, in call order

mkVars == <<mk_fn, mk_args, mk_types, mk_outs>>

VARIABLES
    sc_in,           \* the analysis handed to calculate_analysis_score
    sc_score         \* the score it returned

scVars == <<sc_in, sc_score>>

VARIABLES
    vk_in,           \* the string handed to validate_keyword
    vk_out           \* what it returned

vkVars == <<vk_in, vk_out>>

VARIABLES
    web_projects,    \* the projects table: the row of id i is web_projects[i]
    web_analyses,    \* the analyses table, rows in insertion order
    web_engine_call, \* the last call of seo_engine.run_full_analysis (history)
    web_response     \* the last request and the HTTP status it was answered with

webVars == <<web_projects, web_analyses, web_engine_call, web_response>>

VARIABLES
    sh_calls         \* the run_full_analysis calls the one shared engine has
                     \* served, in order: keyword, draws and result (history)

shVars == <<sh_calls>>

engineVars == <<pc, keyword, content_outline, schema_markup, serp_results,
                entities, tfidf_keywords, exc, raisedIn, result,
                content_templates, schema_templates>>

vars == <<engineVars, aiVars, mkVars, scVars, vkVars, webVars, shVars>>

\* the variables each component leaves alone
EngineOnly == UNCHANGED <<aiVars, mkVars, scVars, vkVars, webVars, shVars>>

AIOnly == UNCHANGED <<engineVars, mkVars, scVars, vkVars, webVars, shVars>>

MarkupOnly == UNCHANGED <<engineVars, aiVars, scVars, vkVars, webVars, shVars>>

ScoreOnly == UNCHANGED <<engineVars, aiVars, mkVars, vkVars, webVars, shVars>>

\* the routes read the shared engine and write the tables
WebOnly == UNCHANGED <<engineVars, aiVars, mkVars, scVars, vkVars, shVars>>

ValidateOnly == UNCHANGED <<engineVars, aiVars, mkVars, scVars, webVars, shVars>>

None == "None"

(***************************************************************************)
(* Bounds of the model.                                                    *)
(***************************************************************************)
MaxKeywordLen == 4
MaxAIKeywordLen == 1
MaxListLen == 6
MaxCalls == 2
MaxEntities == 10
MaxScoredKeywords == 20
MaxSerpResults == 8
MaxOutlineLen == 501
MaxValidateLen == 3
MaxProjects == 2

(***************************************************************************)
(* Strings.                                                                *)
(***************************************************************************)
Alphabet == {"s", "e", "o", " "}

Strings(n) == UNION {[1..m -> Alphabet] : m \in 0..n}

\* str.lower() and str.upper() on one character
LowerLetters ==
    <<"a", "b", "c", "d", "e", "f", "g", "h", "i", "j", "k", "l", "m", "n", "o",
      "p", "q", "r", "s", "t", "u", "v", "w", "x", "y", "z">>

UpperLetters ==
    <<"A", "B", "C", "D", "E", "F", "G", "H", "I", "J", "K", "L", "M", "N", "O",
      "P", "Q", "R", "S", "T", "U", "V", "W", "X", "Y", "Z">>

\* the lower-case letter of each upper-case letter, and the reverse
ToLower ==
    [c \in {UpperLetters[i] : i \in 1..Len(UpperLetters)} |->
        LowerLetters[CHOOSE i \in 1..Len(UpperLetters) : UpperLetters[i] = c]]

ToUpper ==
    [c \in {LowerLetters[i] : i \in 1..Len(LowerLetters)} |->
        UpperLetters[CHOOSE i \in 1..Len(LowerLetters) : LowerLetters[i] = c]]

LowerChar(c) == IF c \in DOMAIN ToLower THEN ToLower[c] ELSE c

UpperChar(c) == IF c \in DOMAIN ToUpper THEN ToUpper[c] ELSE c

IsSpace(c) == c \in {" ", "\t", "\n"}

IsCased(c) == LowerChar(c) # c \/ UpperChar(c) # c

\* str.lower()
Lower(s) == [i \in 1..Len(s) |-> LowerChar(s[i])]

\* str.title(): a cased character is upper-cased after an uncased one (or at
\* the start) and lower-cased after a cased one
Title(s) ==
    [i \in 1..Len(s) |->
        IF i = 1 \/ ~IsCased(s[i - 1]) THEN UpperChar(s[i]) ELSE LowerChar(s[i])]

\* sub in s
Contains(sub, s) ==
    \E i \in 0..(Len(s) - Len(sub)) : SubSeq(s, i + 1, i + Len(sub)) = sub

\* str.split(): the maximal runs of non-whitespace characters, in order
RECURSIVE SplitFrom(_, _, _)
SplitFrom(s, i, word) ==
    IF i > Len(s)
    THEN IF word = <<>> THEN <<>> ELSE <<word>>
    ELSE IF IsSpace(s[i])
         THEN (IF word = <<>> THEN <<>> ELSE <<word>>) \o SplitFrom(s, i + 1, <<>>)
         ELSE SplitFrom(s, i + 1, Append(word, s[i]))

Split(s) == SplitFrom(s, 1, <<>>)

\* str.replace(' ', '-')
ReplaceSpace(s) == [i \in 1..Len(s) |-> IF s[i] = " " THEN "-" ELSE s[i]]

\* len() of a text: the characters of its atoms
RECURSIVE TextLen(_)
TextLen(t) == IF t = <<>> THEN 0 ELSE Len(Head(t)) + TextLen(Tail(t))

RECURSIVE SeqSum(_)
SeqSum(s) == IF s = <<>> THEN 0 ELSE Head(s) + SeqSum(Tail(s))

(***************************************************************************)
(* Python values.                                                          *)
(***************************************************************************)
\* an exception object; str(e) is its msg
Exception(type, msg) == [type |-> type, msg |-> msg]

str(e) == e.msg

\* no exception in flight
NoException == [type |-> "None", msg |-> ""]

\* the outcome of a call: a returned value or a raised exception
Return(v) == [raised |-> FALSE, value |-> v]

Raise(e) == [raised |-> TRUE, exc |-> e]

\* JSON values: a string, a dict (pairs in insertion order) or a list
JStr(text) == [t |-> "s", v |-> text]

JDict(pairs) == [t |-> "d", v |-> pairs]

JList(items) == [t |-> "l", v |-> items]

\* d[key] = value on a dict that keeps insertion order
DictSet(pairs, key, value) ==
    IF \E i \in 1..Len(pairs) : pairs[i][1] = key
    THEN [i \in 1..Len(pairs) |-> IF pairs[i][1] = key THEN <<key, value>> ELSE pairs[i]]
    ELSE Append(pairs, <<key, value>>)

DictKeys(pairs) == {pairs[i][1] : i \in 1..Len(pairs)}

\* json.dumps: the serialized text, keys in insertion order
JsonEscape(text) ==
    [i \in 1..Len(text) |->
        IF text[i] = "\"" THEN "\\\"" ELSE IF text[i] = "\\" THEN "\\\\" ELSE text[i]]

RECURSIVE DumpsValue(_), DumpsPairs(_), DumpsItems(_)
DumpsValue(j) ==
    CASE j.t = "s" -> <<"\"">> \o JsonEscape(j.v) \o <<"\"">>
      [] j.t = "d" -> <<"{">> \o DumpsPairs(j.v) \o <<"}">>
      [] j.t = "l" -> <<"[">> \o DumpsItems(j.v) \o <<"]">>

DumpsPairs(pairs) ==
    IF pairs = <<>> THEN <<>>
    ELSE <<"\"", Head(pairs)[1], "\": ">> \o DumpsValue(Head(pairs)[2])
         \o (IF Len(pairs) > 1 THEN <<", ">> ELSE <<>>) \o DumpsPairs(Tail(pairs))

DumpsItems(items) ==
    IF items = <<>> THEN <<>>
    ELSE DumpsValue(Head(items))
         \o (IF Len(items) > 1 THEN <<", ">> ELSE <<>>) \o DumpsItems(Tail(items))

json_dumps(pairs) == DumpsValue(JDict(pairs))

\* str.format(keyword=...) on a template whose placeholder is one atom
RECURSIVE Format(_, _)
Format(template, kw) ==
    IF template = <<>> THEN <<>>
    ELSE (IF Head(template) = "{keyword}" THEN kw ELSE <<Head(template)>>)
         \o Format(Tail(template), kw)

(***************************************************************************)
(* SEOEngine: the data of __init__.                                        *)
(***************************************************************************)
ContentTemplates ==
    [seo |-> <<
        <<"Understanding ", "{keyword}", " is crucial for digital marketing success. This comprehensive guide covers everything you need to know about ", "{keyword}", " and how to implement effective strategies.">>,
        <<"Mastering ", "{keyword}", " requires a deep understanding of search engine algorithms and user behavior. Learn the proven techniques that top marketers use.">>,
        <<"The world of ", "{keyword}", " is constantly evolving. Stay ahead of the curve with these expert insights and actionable tips.">> >>,
     marketing |-> <<
        <<"Effective ", "{keyword}", " strategies can transform your business growth. Discover the key principles and implementation methods.">>,
        <<"In today's competitive market, understanding ", "{keyword}", " is essential. This guide provides practical approaches for success.">>,
        <<"Successful ", "{keyword}", " campaigns require careful planning and execution. Learn from industry experts and case studies.">> >>,
     technology |-> <<
        <<"The technology behind ", "{keyword}", " is advancing rapidly. Explore the latest developments and their practical applications.">>,
        <<"Understanding ", "{keyword}", " technology is key to staying competitive. This comprehensive overview covers all essential aspects.">>,
        <<"Modern ", "{keyword}", " solutions offer unprecedented opportunities. Learn how to leverage these technologies effectively.">> >>]

Organization ==
    JDict(<< <<"@type", JStr(<<"Organization">>)>>,
             <<"name", JStr(<<"SEO Content Generator">>)>> >>)

HowToStep(name, text) ==
    JDict(<< <<"@type", JStr(<<"HowToStep">>)>>,
             <<"name", JStr(<<name>>)>>,
             <<"text", JStr(text)>> >>)

SchemaTemplates ==
    [Article |-> <<
        <<"@context", JStr(<<"https://schema.org">>)>>,
        <<"@type", JStr(<<"Article">>)>>,
        <<"headline", JStr(<<"{title}">>)>>,
        <<"description", JStr(<<"{description}">>)>>,
        <<"author", Organization>>,
        <<"publisher", Organization>>,
        <<"datePublished", JStr(<<"{date}">>)>>,
        <<"mainEntityOfPage",
          JDict(<< <<"@type", JStr(<<"WebPage">>)>>, <<"@id", JStr(<<"{url}">>)>> >>)>> >>,
     HowTo |-> <<
        <<"@context", JStr(<<"https://schema.org">>)>>,
        <<"@type", JStr(<<"HowTo">>)>>,
        <<"name", JStr(<<"{title}">>)>>,
        <<"description", JStr(<<"{description}">>)>>,
        <<"step", JList(<<
            HowToStep("Research and Planning",
                      <<"Begin by researching ", "{keyword}", " thoroughly and planning your approach.">>),
            HowToStep("Implementation",
                      <<"Implement the strategies and techniques related to ", "{keyword}", ".">>),
            HowToStep("Optimization",
                      <<"Continuously optimize and refine your ", "{keyword}", " strategies.">>) >>)>> >>]

\* random.randint(lo, hi) drawn n times: the draws the model follows
Draws(n, lo, hi) ==
    {[i \in 1..n |-> lo], [i \in 1..n |-> hi],
     [i \in 1..n |-> IF i % 2 = 1 THEN lo ELSE hi]}

WordCountMin == 1500
WordCountMax == 3000
FrequencyMin == 5
FrequencyMax == 50
StrengthMin == 30
StrengthMax == 90
SerpCount == 5

(***************************************************************************)
(* SEOEngine: the stages.                                                  *)
(***************************************************************************)
\* any(term in keyword_lower for term in terms)
AnyIn(terms, s) == \E t \in terms : Contains(t, s)

_categorize_keyword(kw) ==
    LET keyword_lower == Lower(kw) IN
    IF AnyIn({<<"s", "e", "o">>, <<"s", "e", "a", "r", "c", "h">>,
              <<"o", "p", "t", "i", "m", "i", "z", "a", "t", "i", "o", "n">>,
              <<"r", "a", "n", "k", "i", "n", "g">>}, keyword_lower)
    THEN "seo"
    ELSE IF AnyIn({<<"m", "a", "r", "k", "e", "t", "i", "n", "g">>,
                   <<"c", "a", "m", "p", "a", "i", "g", "n">>,
                   <<"s", "t", "r", "a", "t", "e", "g", "y">>,
                   <<"b", "r", "a", "n", "d">>}, keyword_lower)
    THEN "marketing"
    ELSE IF AnyIn({<<"t", "e", "c", "h">>, <<"s", "o", "f", "t", "w", "a", "r", "e">>,
                   <<"a", "p", "p">>, <<"d", "i", "g", "i", "t", "a", "l">>,
                   <<"a", "i">>}, keyword_lower)
    THEN "technology"
    ELSE "seo"

\* choice: the index random.choice picks, word_count: the random.randint draw
_generate_content_outline(templates, kw, choice, word_count) ==
    LET category == _categorize_keyword(kw)
        template == templates[category][choice]
    IN [title |-> <<"Complete Guide to ">> \o Title(kw) \o <<" - Expert Tips & Strategies">>,
        description |-> Format(template, kw),
        sections |-> <<
            <<"What is ">> \o kw \o <<"?">>,
            <<"Benefits of ">> \o kw,
            <<"Best Practices for ">> \o kw,
            <<"Common Mistakes to Avoid">>,
            <<"Advanced ">> \o kw \o <<" Strategies">>,
            <<"Tools and Resources">>,
            <<"Case Studies and Examples">>,
            <<"Future Trends in ">> \o kw >>,
        estimated_word_count |-> word_count]

SchemaTypes == {"Article", "HowTo"}

\* mutant of _generate_schema_markup: datePublished is stamped with a clock,
\* here the number of calls made so far
_generate_schema_markup_clock(templates, kw, title, schema_type) ==
    json_dumps(DictSet(DictSet(templates[schema_type], "name", JStr(title)),
                       "datePublished", JStr(<<ToString(Len(mk_outs))>>)))

\* mutant of SchemaTemplatesAfter: the template itself is filled in, not a copy
SchemaTemplatesAfter_inplace(templates, kw, title, schema_type) ==
    [templates EXCEPT ![schema_type] =
        DictSet(@, IF schema_type = "Article" THEN "headline" ELSE "name", JStr(title))]

\* self.schema_templates after _generate_schema_markup: the stage assigns to
\* the keys of template.copy() and to nothing the template shares with it
SchemaTemplatesAfter(templates, kw, title, schema_type) == templates

\* self.content_templates after _generate_content_outline: the stage reads a
\* template string and formats it into a new string
ContentTemplatesAfter(templates, kw, choice) == templates

\* schema_type: what random.choice(['Article', 'HowTo']) picks
_generate_schema_markup(templates, kw, title, schema_type) ==
    LET schema == templates[schema_type]  \* template.copy()
        filled ==
            IF schema_type = "Article"
            THEN DictSet(DictSet(schema, "headline", JStr(title)), "description",
                   JStr(<<"Comprehensive guide to ">> \o kw
                        \o <<" with expert insights and actionable strategies.">>))
            ELSE DictSet(DictSet(schema, "name", JStr(title)), "description",
                   JStr(<<"Step-by-step guide to mastering ">> \o kw \o <<" effectively.">>))
    IN json_dumps(filled)

MockSerp(kw, count) ==
    [i \in 1..count |->
        [title |-> Title(kw) \o <<" - Complete Guide ", ToString(i)>>,
         url |-> <<"https://example", ToString(i), ".com/">> \o ReplaceSpace(kw),
         snippet |-> <<"Learn everything about ">> \o kw
                     \o <<" with our comprehensive guide. Expert tips, strategies, and best practices for success.">>,
         position |-> i,
         domain |-> <<"example", ToString(i), ".com">>]]

_get_mock_serp_results(kw) == MockSerp(kw, SerpCount)

SeoTerms ==
    << <<"S", "E", "O">>,
       <<"m", "a", "r", "k", "e", "t", "i", "n", "g">>,
       <<"s", "t", "r", "a", "t", "e", "g", "y">>,
       <<"o", "p", "t", "i", "m", "i", "z", "a", "t", "i", "o", "n">>,
       <<"c", "o", "n", "t", "e", "n", "t">> >>

SignificantLen == 3

KeywordEntity(kw) == [text |-> kw, type |-> "KEYWORD", relevance |-> 100]

\* for word in words: if len(word) > 3: entities.append(...)
RECURSIVE TermEntities(_)
TermEntities(words) ==
    IF words = <<>> THEN <<>>
    ELSE (IF Len(Head(words)) > SignificantLen
          THEN <<[text |-> Head(words), type |-> "TERM", relevance |-> 80]>>
          ELSE <<>>)
         \o TermEntities(Tail(words))

\* for term in seo_terms: if term.lower() in keyword.lower(): entities.append(...)
RECURSIVE ConceptEntities(_, _)
ConceptEntities(terms, kw) ==
    IF terms = <<>> THEN <<>>
    ELSE (IF Contains(Lower(Head(terms)), Lower(kw))
          THEN <<[text |-> Head(terms), type |-> "CONCEPT", relevance |-> 90]>>
          ELSE <<>>)
         \o ConceptEntities(Tail(terms), kw)

_extract_entities(kw, serp) ==
    <<KeywordEntity(kw)>> \o TermEntities(Split(kw)) \o ConceptEntities(SeoTerms, kw)

RelatedSuffixes ==
    << <<>>,
       <<" ", "g", "u", "i", "d", "e">>,
       <<" ", "t", "i", "p", "s">>,
       <<" ", "s", "t", "r", "a", "t", "e", "g", "i", "e", "s">>,
       <<" ", "b", "e", "s", "t", " ", "p", "r", "a", "c", "t", "i", "c", "e", "s">>,
       <<" ", "e", "x", "a", "m", "p", "l", "e", "s">>,
       <<" ", "t", "o", "o", "l", "s">>,
       <<" ", "c", "a", "s", "e", " ", "s", "t", "u", "d", "y">> >>

\* mutant of TfidfScore: the scores rise with the rank
TfidfScore_ascending(i) == 30 + (i * 10)

\* round(1.0 - (i * 0.1), 2) in hundredths, i counted from 0
TfidfScore(i) == 100 - (i * 10)

\* frequency: the random.randint draw of each term
_generate_tfidf_keywords(kw, serp, frequency) ==
    LET related_terms == [i \in 1..Len(RelatedSuffixes) |-> kw \o RelatedSuffixes[i]]
    IN [i \in 1..Len(related_terms) |->
           [term |-> related_terms[i], score |-> TfidfScore(i - 1),
            frequency |-> frequency[i]]]

\* mutant of _analyze_competitors: an empty list is given an average of 0
_analyze_competitors_guarded(serp, strength) ==
    Return([total_competitors |-> Len(serp),
            average_strength |->
                IF Len(serp) = 0 THEN 0
                ELSE SeqSum([i \in 1..Len(serp) |-> strength[i]]) \div Len(serp),
            competitors |->
                [i \in 1..Len(serp) |->
                    [domain |-> serp[i].domain, url |-> serp[i].url,
                     title |-> serp[i].title, strength |-> strength[i]]]])

\* strength: the random.randint draw of each competitor
_analyze_competitors(serp, strength) ==
    LET competitors ==
            [i \in 1..Len(serp) |->
                [domain |-> serp[i].domain, url |-> serp[i].url,
                 title |-> serp[i].title, strength |-> strength[i]]]
        total == SeqSum([i \in 1..Len(competitors) |-> competitors[i].strength])
    IN IF Len(competitors) = 0
       THEN Raise(Exception("ZeroDivisionError", "integer division or modulo by zero"))
       ELSE Return([total_competitors |-> Len(competitors),
                    average_strength |-> total \div Len(competitors),
                    competitors |-> competitors])

(***************************************************************************)
(* SEOEngine.run_full_analysis, one step per statement of its try block.   *)
(* Any call may raise (a MemoryError at the least): StageRaises.           *)
(***************************************************************************)
SampleKeywords ==
    { <<"S", "E", "O">>,
      <<"s", "e", "o", " ", "s", "e", "o">>,
      <<"a", "i">>,
      <<"b", "r", "a", "n", "d">>,
      <<"c", "o", "n", "t", "e", "n", "t">>,
      <<"t", "i", "p", "s", " ", "t", "i", "p", "s">>,
      <<"b", "e", "s", "t", " ", "s", "e", "o", " ", "t", "i", "p", "s">> }

Keywords == Strings(MaxKeywordLen) \cup SampleKeywords

Stages ==
    <<"_analyze_keyword", "_generate_content_outline", "_generate_schema_markup",
      "_get_mock_serp_results", "_extract_entities", "_generate_tfidf_keywords",
      "_analyze_competitors">>

StageSet == {Stages[i] : i \in 1..Len(Stages)}

NoResult == [kind |-> "none"]

\* content_outline before the outline stage assigns it
NoOutline ==
    [title |-> <<>>, description |-> <<>>, sections |-> <<>>, estimated_word_count |-> 0]

Returned(v) == [kind |-> "return", value |-> v]

Propagated(e) == [kind |-> "raise", exc |-> e]

\* the state of an invocation that has not assigned its locals yet
Enter(k) ==
    /\ keyword' = k
    /\ content_outline' = NoOutline
    /\ schema_markup' = <<>>
    /\ serp_results' = <<>>
    /\ entities' = <<>>
    /\ tfidf_keywords' = <<>>
    /\ exc' = None
    /\ raisedIn' = None
    /\ result' = NoResult

EngineInit ==
    /\ pc = "idle"
    /\ keyword = <<>>
    /\ content_outline = NoOutline
    /\ schema_markup = <<>>
    /\ serp_results = <<>>
    /\ entities = <<>>
    /\ tfidf_keywords = <<>>
    /\ exc = None
    /\ raisedIn = None
    /\ result = NoResult
    /\ content_templates = ContentTemplates
    /\ schema_templates = SchemaTemplates

\* a caller invokes run_full_analysis(k); the method does no validation
Call ==
    /\ EngineOnly
    /\ pc = "idle"
    /\ \E k \in Keywords : Enter(k)
    /\ pc' = "_analyze_keyword"
    /\ UNCHANGED <<content_templates, schema_templates>>

\* the caller has taken the result; the engine is free for the next invocation
Taken ==
    /\ EngineOnly
    /\ pc = "done"
    /\ Enter(<<>>)
    /\ pc' = "idle"
    /\ UNCHANGED <<content_templates, schema_templates>>

\* keyword_data = self._analyze_keyword(keyword): never read afterwards
AnalyzeKeyword ==
    /\ EngineOnly
    /\ pc = "_analyze_keyword"
    /\ pc' = "_generate_content_outline"
    /\ UNCHANGED <<keyword, content_outline, schema_markup, serp_results, entities,
                   tfidf_keywords, exc, raisedIn, result, content_templates,
                   schema_templates>>

GenerateContentOutline ==
    /\ EngineOnly
    /\ pc = "_generate_content_outline"
    /\ \E choice \in 1..3, word_count \in {WordCountMin, WordCountMax} :
           /\ content_outline' =
                  _generate_content_outline(content_templates, keyword, choice, word_count)
           /\ content_templates' = ContentTemplatesAfter(content_templates, keyword, choice)
    /\ pc' = "_generate_schema_markup"
    /\ UNCHANGED <<keyword, schema_markup, serp_results, entities, tfidf_keywords,
                   exc, raisedIn, result, schema_templates>>

GenerateSchemaMarkup ==
    /\ EngineOnly
    /\ pc = "_generate_schema_markup"
    /\ \E schema_type \in SchemaTypes :
           /\ schema_markup' =
                  _generate_schema_markup(schema_templates, keyword,
                                          content_outline.title, schema_type)
           /\ schema_templates' =
                  SchemaTemplatesAfter(schema_templates, keyword,
                                       content_outline.title, schema_type)
    /\ pc' = "_get_mock_serp_results"
    /\ UNCHANGED <<keyword, content_outline, serp_results, entities, tfidf_keywords,
                   exc, raisedIn, result, content_templates>>

GetMockSerpResults ==
    /\ EngineOnly
    /\ pc = "_get_mock_serp_results"
    /\ serp_results' = _get_mock_serp_results(keyword)
    /\ pc' = "_extract_entities"
    /\ UNCHANGED <<keyword, content_outline, schema_markup, entities, tfidf_keywords,
                   exc, raisedIn, result, content_templates, schema_templates>>

\* a SERP stage that yields no records, as a provider that cannot produce any
\* would
SerpYieldsNothing ==
    /\ EngineOnly
    /\ pc = "_get_mock_serp_results"
    /\ serp_results' = MockSerp(keyword, 0)
    /\ pc' = "_extract_entities"
    /\ UNCHANGED <<keyword, content_outline, schema_markup, entities, tfidf_keywords,
                   exc, raisedIn, result, content_templates, schema_templates>>

ExtractEntities ==
    /\ EngineOnly
    /\ pc = "_extract_entities"
    /\ entities' = _extract_entities(keyword, serp_results)
    /\ pc' = "_generate_tfidf_keywords"
    /\ UNCHANGED <<keyword, content_outline, schema_markup, serp_results,
                   tfidf_keywords, exc, raisedIn, result, content_templates,
                   schema_templates>>

GenerateTfidfKeywords ==
    /\ EngineOnly
    /\ pc = "_generate_tfidf_keywords"
    /\ \E frequency \in Draws(Len(RelatedSuffixes), FrequencyMin, FrequencyMax) :
           tfidf_keywords' = _generate_tfidf_keywords(keyword, serp_results, frequency)
    /\ pc' = "_analyze_competitors"
    /\ UNCHANGED <<keyword, content_outline, schema_markup, serp_results, entities,
                   exc, raisedIn, result, content_templates, schema_templates>>

\* the dict that the return statement builds when nothing was raised
CompletedResult(competitor_analysis) ==
    [status |-> "completed",
     keyword |-> keyword,
     analysis |-> [entities |-> entities,
                   tfidf_keywords |-> tfidf_keywords,
                   content_outline |-> content_outline,
                   schema_markup |-> schema_markup],
     serp_results |-> serp_results,
     competitor_analysis |-> competitor_analysis]

\* the return statement: _analyze_competitors runs inside the dict literal,
\* inside the try block
ReturnCompleted ==
    /\ EngineOnly
    /\ pc = "_analyze_competitors"
    /\ \E strength \in Draws(Len(serp_results), StrengthMin, StrengthMax) :
         LET called == _analyze_competitors(serp_results, strength) IN
         IF called.raised
         THEN /\ exc' = called.exc
              /\ raisedIn' = pc
              /\ pc' = "except"
              /\ result' = result
         ELSE /\ result' = Returned(CompletedResult(called.value))
              /\ pc' = "done"
              /\ UNCHANGED <<exc, raisedIn>>
    /\ UNCHANGED <<keyword, content_outline, schema_markup, serp_results, entities,
                   tfidf_keywords, content_templates, schema_templates>>

\* an exception raised by the stage the invocation is in
StageRaises ==
    /\ EngineOnly
    /\ pc \in StageSet
    /\ exc' = Exception("Exception", pc)
    /\ raisedIn' = pc
    /\ pc' = "except"
    /\ UNCHANGED <<keyword, content_outline, schema_markup, serp_results, entities,
                   tfidf_keywords, result, content_templates, schema_templates>>

\* mutants of ExceptHandler: the handler re-raises; the handler answers 'failed'
ExceptHandler_reraise(e) == Propagated(e)

ExceptHandler_failed(e) == Returned([status |-> "failed", error |-> str(e)])

\* except Exception as e: return {'status': 'error', 'error': str(e)}
ExceptHandler(e) == Returned([status |-> "error", error |-> str(e)])

Except ==
    /\ EngineOnly
    /\ pc = "except"
    /\ result' = ExceptHandler(exc)
    /\ pc' = "done"
    /\ UNCHANGED <<keyword, content_outline, schema_markup, serp_results, entities,
                   tfidf_keywords, exc, raisedIn, content_templates, schema_templates>>

(***************************************************************************)
(* FreeAIService.                                                          *)
(***************************************************************************)
Min(a, b) == IF a < b THEN a ELSE b

\* s[:n]
Slice(s, n) == SubSeq(s, 1, Min(n, Len(s)))

\* sep.join(texts)
RECURSIVE Join(_, _)
Join(sep, texts) ==
    IF texts = <<>> THEN <<>>
    ELSE Head(texts) \o (IF Len(texts) > 1 THEN <<sep>> ELSE <<>>) \o Join(sep, Tail(texts))

KeyError(key) == Exception("KeyError", "'" \o key \o "'")

\* [item[key] for item in items]: KeyError at the first item without the key
Pluck(items, key) ==
    IF \E i \in 1..Len(items) : key \notin DOMAIN items[i]
    THEN Raise(KeyError(key))
    ELSE Return([i \in 1..Len(items) |-> items[i][key]])

EntitySlice == 5
KeywordSlice == 10
GeneratedLimit == 1000

\* mutant of NameOr: the list is read one place too far
NameOr_shifted(names, i, placeholder) ==
    IF Len(names) > i + 1 THEN names[i + 2] ELSE <<placeholder>>

\* names[i] if len(names) > i else placeholder, i counted from 0
NameOr(names, i, placeholder) == IF Len(names) > i THEN names[i + 1] ELSE <<placeholder>>

\* the f-string of _generate_local_outline
LocalOutlineText(kw, entity_names, keyword_names) ==
    <<"# ">> \o Title(kw) \o <<" - Complete Guide 2025\n\n## Introduction\nOverview of ">>
    \o kw \o <<" and why it matters in 2025. This comprehensive guide covers everything you need to know about ">>
    \o kw \o <<".\n\n## Key Features and Benefits\n- ">>
    \o NameOr(entity_names, 0, "Feature 1") \o <<": Essential aspect of ">> \o kw \o <<"\n- ">>
    \o NameOr(entity_names, 1, "Feature 2") \o <<": Important consideration for users\n- ">>
    \o NameOr(entity_names, 2, "Feature 3")
    \o <<": Critical factor in decision making\n\n## Top Options and Comparisons\n- ">>
    \o NameOr(keyword_names, 0, "Option 1") \o <<": Leading choice in the market\n- ">>
    \o NameOr(keyword_names, 1, "Option 2") \o <<": Popular alternative with unique benefits\n- ">>
    \o NameOr(keyword_names, 2, "Option 3")
    \o <<": Emerging option worth considering\n\n## Detailed Analysis\n### ">>
    \o NameOr(keyword_names, 3, "Analysis Point 1")
    \o <<"\nDeep dive into this important aspect of ">> \o kw \o <<".\n\n### ">>
    \o NameOr(keyword_names, 4, "Analysis Point 2")
    \o <<"\nUnderstanding the implications and benefits.\n\n## Buying Guide and Recommendations\nFactors to consider when choosing ">>
    \o kw
    \o <<":\n- Quality and reliability\n- Price and value for money\n- User reviews and ratings\n- Long-term benefits\n\n## Expert Tips and Best Practices\n- Research thoroughly before making a decision\n- Compare multiple options\n- Consider your specific needs\n- Read user reviews and expert opinions\n\n## Conclusion\nSummary of key points and final recommendations for ">>
    \o kw
    \o <<". Choose the option that best fits your requirements and budget.\n\n## Additional Resources\n- Related articles and guides\n- Expert recommendations\n- User community discussions\n- Latest updates and trends">>

_generate_local_outline(kw, ents, kws) ==
    LET entity_names == Pluck(Slice(ents, EntitySlice), "text")
        keyword_names == Pluck(Slice(kws, KeywordSlice), "keyword")
    IN IF entity_names.raised THEN entity_names
       ELSE IF keyword_names.raised THEN keyword_names
       ELSE Return(LocalOutlineText(kw, entity_names.value, keyword_names.value))

\* the prompt of _generate_with_huggingface, built before its try block
BuildPrompt(kw, ents, kws) ==
    LET sliced == Slice(ents, EntitySlice)
        texts == Pluck(sliced, "text")
        labels == Pluck(sliced, "label")
        names == Pluck(Slice(kws, KeywordSlice), "keyword")
        \* ent['text'] is read before ent['label'], entity by entity
        firstBad ==
            CHOOSE i \in 1..Len(sliced) :
                /\ {"text", "label"} \ DOMAIN sliced[i] # {}
                /\ \A j \in 1..(i - 1) : {"text", "label"} \subseteq DOMAIN sliced[j]
    IN IF texts.raised \/ labels.raised
       THEN (IF "text" \notin DOMAIN sliced[firstBad] THEN texts ELSE labels)
       ELSE IF names.raised THEN names
       ELSE Return(
              <<"Generate a blog post outline for \"">> \o kw
              \o <<"\". \n\nUse these entities naturally: ">>
              \o Join(", ", [i \in 1..Len(sliced) |->
                               texts.value[i] \o <<" (">> \o labels.value[i] \o <<")">>])
              \o <<"\nInclude these keywords: ">> \o Join(", ", names.value)
              \o <<"\n\nFormat with H2 and H3 headings. Make it SEO-optimized.">>)

StatusOK == 200

\* the try block of _generate_with_huggingface on what requests.post did:
\* the text it returns, or the way it falls through to the local outline
HandleAnswer(answer) ==
    IF answer.kind = "exception" THEN [returned |-> FALSE, failure |-> "network"]
    ELSE IF answer.status_code # StatusOK THEN [returned |-> FALSE, failure |-> "status"]
    ELSE IF answer.body.json # "list" THEN [returned |-> FALSE, failure |-> "payload"]
    ELSE IF Len(answer.body.items) = 0 THEN [returned |-> FALSE, failure |-> "payload"]
    ELSE LET first == answer.body.items[1] IN
         IF first.is # "dict" THEN [returned |-> FALSE, failure |-> "payload"]
         ELSE IF first.generated_text.is = "missing" THEN [returned |-> TRUE, value |-> <<>>]
         ELSE IF first.generated_text.is # "str" THEN [returned |-> FALSE, failure |-> "payload"]
         ELSE [returned |-> TRUE,
               value |-> Slice(first.generated_text.text, GeneratedLimit)]

(***************************************************************************)
(* FreeAIService.generate_content_outline, one step per statement.  The    *)
(* arguments are lists of either shape found in the repository: what       *)
(* SEOEngine produces ({text, type, relevance}, {term, score, frequency})  *)
(* and what this class reads ({text, label}, {keyword, score, frequency}). *)
(***************************************************************************)
EntityShapes == {"type", "label"}

KeywordShapes == {"term", "keyword"}

EntityList(shape, n) ==
    [i \in 1..n |->
        IF shape = "type"
        THEN [text |-> <<"entity", ToString(i)>>, type |-> "TERM", relevance |-> 80]
        ELSE [text |-> <<"entity", ToString(i)>>, label |-> <<"ORG">>]]

KeywordList(shape, n) ==
    [i \in 1..n |->
        IF shape = "term"
        THEN [term |-> <<"keyword", ToString(i)>>, score |-> TfidfScore(i - 1),
              frequency |-> FrequencyMin]
        ELSE [keyword |-> <<"keyword", ToString(i)>>, score |-> TfidfScore(i - 1),
              frequency |-> FrequencyMin]]

GeneratedText(n) == [i \in 1..n |-> "x"]

Response(status_code, body) ==
    [kind |-> "response", status_code |-> status_code, body |-> body]

JsonList(items) == [json |-> "list", items |-> items]

Generated(generated_text) == [is |-> "dict", generated_text |-> generated_text]

\* what requests.post can do
RemoteAnswers ==
    { [kind |-> "exception"],
      Response(503, [json |-> "dict"]),
      Response(StatusOK, [json |-> "invalid"]),
      Response(StatusOK, [json |-> "dict"]),
      Response(StatusOK, JsonList(<<>>)),
      Response(StatusOK, JsonList(<<[is |-> "str"]>>)),
      Response(StatusOK, JsonList(<<Generated([is |-> "missing"])>>)),
      Response(StatusOK, JsonList(<<Generated([is |-> "null"])>>)) }
    \cup { Response(StatusOK, JsonList(<<Generated([is |-> "str", text |-> GeneratedText(n)])>>))
           : n \in {0, 1, GeneratedLimit + 1} }

AIInit ==
    /\ ai_pc = "idle"
    /\ ai_token = FALSE
    /\ ai_keyword = <<>>
    /\ ai_entities = <<>>
    /\ ai_keywords = <<>>
    /\ ai_failure = "none"
    /\ ai_remoteCalls = 0
    /\ ai_localCalls = 0
    /\ ai_exc = NoException
    /\ ai_raisedIn = None
    /\ ai_result = NoResult

\* a caller invokes generate_content_outline(keyword, entities, keywords)
AICall ==
    /\ AIOnly
    /\ ai_pc = "idle"
    /\ ai_token' \in BOOLEAN
    /\ ai_keyword' \in Strings(MaxAIKeywordLen)
    /\ \E shape \in EntityShapes, n \in 0..MaxListLen : ai_entities' = EntityList(shape, n)
    /\ \E shape \in KeywordShapes, n \in 0..MaxListLen : ai_keywords' = KeywordList(shape, n)
    /\ ai_failure' = "none"
    /\ ai_remoteCalls' = 0
    /\ ai_localCalls' = 0
    /\ ai_exc' = NoException
    /\ ai_raisedIn' = None
    /\ ai_result' = NoResult
    /\ ai_pc' = "token"

\* the caller has taken the result; the service is free for the next invocation
AITaken ==
    /\ AIOnly
    /\ ai_pc = "done"
    /\ ai_pc' = "idle"
    /\ ai_token' = FALSE
    /\ ai_keyword' = <<>>
    /\ ai_entities' = <<>>
    /\ ai_keywords' = <<>>
    /\ ai_failure' = "none"
    /\ ai_remoteCalls' = 0
    /\ ai_localCalls' = 0
    /\ ai_exc' = NoException
    /\ ai_raisedIn' = None
    /\ ai_result' = NoResult

\* if self.huggingface_token:
AICheckToken ==
    /\ AIOnly
    /\ ai_pc = "token"
    /\ IF ai_token
       THEN ai_pc' = "prompt" /\ ai_failure' = ai_failure
       ELSE ai_pc' = "local28" /\ ai_failure' = "credential"
    /\ UNCHANGED <<ai_token, ai_keyword, ai_entities, ai_keywords, ai_remoteCalls,
                   ai_localCalls, ai_exc, ai_raisedIn, ai_result>>

\* _generate_with_huggingface up to its try block
AIBuildPrompt ==
    /\ AIOnly
    /\ ai_pc = "prompt"
    /\ LET prompt == BuildPrompt(ai_keyword, ai_entities, ai_keywords) IN
       IF prompt.raised
       THEN /\ ai_exc' = prompt.exc
            /\ ai_raisedIn' = "prompt"
            /\ ai_failure' = "prompt"
            /\ ai_pc' = "except24"
       ELSE /\ ai_pc' = "post"
            /\ UNCHANGED <<ai_exc, ai_raisedIn, ai_failure>>
    /\ UNCHANGED <<ai_token, ai_keyword, ai_entities, ai_keywords, ai_remoteCalls,
                   ai_localCalls, ai_result>>

\* requests.post(api_url, headers=headers, json=payload) is called: no
\* timeout argument, so the call blocks until the service answers or the
\* connection fails
AIPost ==
    /\ AIOnly
    /\ ai_pc = "post"
    /\ ai_remoteCalls' = ai_remoteCalls + 1
    /\ ai_pc' = "await"
    /\ UNCHANGED <<ai_token, ai_keyword, ai_entities, ai_keywords, ai_failure,
                   ai_localCalls, ai_exc, ai_raisedIn, ai_result>>

\* mutant of AfterFailedAttempt: the request is made again
AfterFailedAttempt_retry == "post"

\* where _generate_with_huggingface goes on when its try block did not return
AfterFailedAttempt == "local59"

\* requests.post comes back, by returning or by raising, and the rest of the
\* try block runs on what it brought
AIAnswer ==
    /\ AIOnly
    /\ ai_pc = "await"
    /\ \E answer \in RemoteAnswers :
         LET handled == HandleAnswer(answer) IN
         IF handled.returned
         THEN /\ ai_result' = Returned(handled.value)
              /\ ai_pc' = "done"
              /\ ai_failure' = ai_failure
         ELSE /\ ai_failure' = handled.failure
              /\ ai_pc' = AfterFailedAttempt
              /\ ai_result' = ai_result
    /\ UNCHANGED <<ai_token, ai_keyword, ai_entities, ai_keywords, ai_remoteCalls,
                   ai_localCalls, ai_exc, ai_raisedIn>>

\* return self._generate_local_outline(...) at the end of
\* _generate_with_huggingface, outside its try block
AILocal59 ==
    /\ AIOnly
    /\ ai_pc = "local59"
    /\ ai_localCalls' = ai_localCalls + 1
    /\ LET outline == _generate_local_outline(ai_keyword, ai_entities, ai_keywords) IN
       IF outline.raised
       THEN /\ ai_exc' = outline.exc
            /\ ai_raisedIn' = "local59"
            /\ ai_pc' = "except24"
            /\ ai_result' = ai_result
       ELSE /\ ai_result' = Returned(outline.value)
            /\ ai_pc' = "done"
            /\ UNCHANGED <<ai_exc, ai_raisedIn>>
    /\ UNCHANGED <<ai_token, ai_keyword, ai_entities, ai_keywords, ai_failure,
                   ai_remoteCalls>>

\* mutant of OuterExcept: the handler re-raises
OuterExcept_reraise(e) == [pc |-> "done", result |-> Propagated(e)]

\* except Exception as e: print(...) in generate_content_outline: where the
\* invocation goes on, and what it hands to its caller
OuterExcept(e) == [pc |-> "local28", result |-> NoResult]

AIExcept24 ==
    /\ AIOnly
    /\ ai_pc = "except24"
    /\ ai_pc' = OuterExcept(ai_exc).pc
    /\ ai_result' = OuterExcept(ai_exc).result
    /\ UNCHANGED <<ai_token, ai_keyword, ai_entities, ai_keywords, ai_failure,
                   ai_remoteCalls, ai_localCalls, ai_exc, ai_raisedIn>>

\* return self._generate_local_outline(...) of generate_content_outline
AILocal28 ==
    /\ AIOnly
    /\ ai_pc = "local28"
    /\ ai_localCalls' = ai_localCalls + 1
    /\ LET outline == _generate_local_outline(ai_keyword, ai_entities, ai_keywords) IN
       IF outline.raised
       THEN /\ ai_exc' = outline.exc
            /\ ai_raisedIn' = "local28"
            /\ ai_result' = Propagated(outline.exc)
       ELSE /\ ai_result' = Returned(outline.value)
            /\ UNCHANGED <<ai_exc, ai_raisedIn>>
    /\ ai_pc' = "done"
    /\ UNCHANGED <<ai_token, ai_keyword, ai_entities, ai_keywords, ai_failure,
                   ai_remoteCalls>>

\* FreeAIService.generate_schema_markup
generate_schema_markup(kw, ents, kws) ==
    LET entity_names == Pluck(Slice(ents, EntitySlice), "text")
        keyword_names == Pluck(Slice(kws, KeywordSlice), "keyword")
    IN IF entity_names.raised THEN entity_names
       ELSE IF keyword_names.raised THEN keyword_names
       ELSE Return(json_dumps(<<
              <<"@context", JStr(<<"https://schema.org">>)>>,
              <<"@type", JStr(<<"Article">>)>>,
              <<"headline", JStr(<<"Best ">> \o Title(kw) \o <<" in 2025 - Complete Guide">>)>>,
              <<"description", JStr(<<"Comprehensive guide to ">> \o kw
                                    \o <<" options, features, and buying advice for 2025.">>)>>,
              <<"keywords", JStr(Join(", ", Slice(keyword_names.value, KeywordSlice)))>>,
              <<"about", JDict(<< <<"@type", JStr(<<"Thing">>)>>, <<"name", JStr(kw)>> >>)>>,
              <<"mainEntity",
                JDict(<< <<"@type", JStr(<<"Thing">>)>>,
                         <<"name", JStr(kw)>>,
                         <<"description", JStr(<<"Complete analysis of ">> \o kw
                                               \o <<" options and features">>)>> >>)>>,
              <<"author", Organization>>,
              <<"publisher", Organization>>,
              <<"datePublished", JStr(<<"2025-01-01">>)>>,
              <<"dateModified", JStr(<<"2025-01-01">>)>>,
              <<"articleSection", JStr(<<"Technology">>)>>,
              <<"inLanguage", JStr(<<"en-US">>)>> >>))

(***************************************************************************)
(* The markup synthesizers called repeatedly with the same arguments.      *)
(***************************************************************************)
MarkupInit ==
    /\ mk_fn = "none"
    /\ mk_args = [keyword |-> <<>>]
    /\ mk_types = <<>>
    /\ mk_outs = <<>>

\* the caller fixes the arguments of SEOEngine._generate_schema_markup
MarkupPickEngine ==
    /\ MarkupOnly
    /\ mk_fn = "none"
    /\ mk_fn' = "engine"
    /\ \E k \in Keywords, title \in {<<>>, <<"T">>} :
           mk_args' = [keyword |-> k,
                       title |-> IF title = <<>>
                                 THEN _generate_content_outline(ContentTemplates, k, 1,
                                                                WordCountMin).title
                                 ELSE title]
    /\ UNCHANGED <<mk_types, mk_outs>>

\* the caller fixes the arguments of FreeAIService.generate_schema_markup
MarkupPickAI ==
    /\ MarkupOnly
    /\ mk_fn = "none"
    /\ mk_fn' = "ai"
    /\ \E k \in Strings(MaxAIKeywordLen), es \in EntityShapes, en \in 0..MaxListLen,
          ks \in KeywordShapes, kn \in 0..MaxListLen :
           mk_args' = [keyword |-> k, entities |-> EntityList(es, en),
                       keywords |-> KeywordList(ks, kn)]
    /\ UNCHANGED <<mk_types, mk_outs>>

MarkupEngineCall ==
    /\ MarkupOnly
    /\ mk_fn = "engine"
    /\ Len(mk_outs) < MaxCalls
    /\ \E schema_type \in SchemaTypes :
         /\ mk_types' = Append(mk_types, schema_type)
         /\ mk_outs' = Append(mk_outs,
                Returned(_generate_schema_markup(SchemaTemplates, mk_args.keyword,
                                                 mk_args.title, schema_type)))
    /\ UNCHANGED <<mk_fn, mk_args>>

MarkupAICall ==
    /\ MarkupOnly
    /\ mk_fn = "ai"
    /\ Len(mk_outs) < MaxCalls
    /\ LET called == generate_schema_markup(mk_args.keyword, mk_args.entities,
                                            mk_args.keywords) IN
         /\ mk_types' = Append(mk_types, "Article")
         /\ mk_outs' = Append(mk_outs, IF called.raised THEN Propagated(called.exc)
                                       ELSE Returned(called.value))
    /\ UNCHANGED <<mk_fn, mk_args>>

(***************************************************************************)
(* calculate_analysis_score.  The analysis is modelled by the four sizes   *)
(* the function reads: len(entities), len(tfidf_keywords), total_results   *)
(* and len(content_outline).                                               *)
(***************************************************************************)
EntitiesBand(entities_count) ==
    IF entities_count >= 10 THEN 30
    ELSE IF entities_count >= 5 THEN 20
    ELSE IF entities_count >= 2 THEN 10
    ELSE 0

\* mutant of KeywordsBand: every matching tier adds its points
KeywordsBand_cumulative(keywords_count) ==
    (IF keywords_count >= 20 THEN 30 ELSE 0)
    + (IF keywords_count >= 10 THEN 20 ELSE 0)
    + (IF keywords_count >= 5 THEN 10 ELSE 0)

KeywordsBand(keywords_count) ==
    IF keywords_count >= 20 THEN 30
    ELSE IF keywords_count >= 10 THEN 20
    ELSE IF keywords_count >= 5 THEN 10
    ELSE 0

SerpBand(serp_count) ==
    IF serp_count >= 8 THEN 20
    ELSE IF serp_count >= 5 THEN 15
    ELSE IF serp_count >= 2 THEN 10
    ELSE 0

OutlineBand(outline_len) ==
    IF outline_len > 500 THEN 20
    ELSE IF outline_len > 200 THEN 15
    ELSE IF outline_len > 50 THEN 10
    ELSE 0

ScoreCap == 100

\* mutant of calculate_analysis_score: the cap wraps around instead of clamping
calculate_analysis_score_wrap(analysis) ==
    (EntitiesBand(analysis.entities) + KeywordsBand(analysis.tfidf_keywords)
     + SerpBand(analysis.total_results) + OutlineBand(analysis.content_outline))
    % ScoreCap

calculate_analysis_score(analysis) ==
    Min(EntitiesBand(analysis.entities) + KeywordsBand(analysis.tfidf_keywords)
        + SerpBand(analysis.total_results) + OutlineBand(analysis.content_outline),
        ScoreCap)

EmptyAnalysis ==
    [entities |-> 0, tfidf_keywords |-> 0, total_results |-> 0, content_outline |-> 0]

ScoreInit ==
    /\ sc_in = EmptyAnalysis
    /\ sc_score = calculate_analysis_score(EmptyAnalysis)

\* the analysis gains one item in the given field and is scored again
Rescore(field) ==
    /\ sc_in' = [sc_in EXCEPT ![field] = @ + 1]
    /\ sc_score' = calculate_analysis_score(sc_in')

ScoreMoreEntities ==
    /\ ScoreOnly
    /\ sc_in.entities < MaxEntities
    /\ Rescore("entities")

ScoreMoreKeywords ==
    /\ ScoreOnly
    /\ sc_in.tfidf_keywords < MaxScoredKeywords
    /\ Rescore("tfidf_keywords")

ScoreMoreSerp ==
    /\ ScoreOnly
    /\ sc_in.total_results < MaxSerpResults
    /\ Rescore("total_results")

ScoreLongerOutline ==
    /\ ScoreOnly
    /\ sc_in.content_outline < MaxOutlineLen
    /\ Rescore("content_outline")

(***************************************************************************)
(* validate_keyword.                                                       *)
(***************************************************************************)
AsciiLetters ==
    {LowerLetters[i] : i \in 1..Len(LowerLetters)}
    \cup {UpperLetters[i] : i \in 1..Len(UpperLetters)}

Digits == {"0", "1", "2", "3", "4", "5", "6", "7", "8", "9"}

\* str.strip(): leading and trailing whitespace removed
RECURSIVE LStrip(_)
LStrip(s) == IF s # <<>> /\ IsSpace(Head(s)) THEN LStrip(Tail(s)) ELSE s

RECURSIVE RStrip(_)
RStrip(s) ==
    IF s # <<>> /\ IsSpace(s[Len(s)]) THEN RStrip(SubSeq(s, 1, Len(s) - 1)) ELSE s

Strip(s) == RStrip(LStrip(s))

\* one character of the class [a-zA-Z0-9\s\-_]
InKeywordClass(c) == c \in AsciiLetters \cup Digits \cup {"-", "_"} \/ IsSpace(c)

\* re.match(r'^[a-zA-Z0-9\s\-_]+$', s)
MatchesKeywordPattern(s) == s # <<>> /\ \A i \in 1..Len(s) : InKeywordClass(s[i])

MinKeywordLen == 2
MaxValidLen == 100

validate_keyword(kw) ==
    IF kw = <<>> \/ Len(Strip(kw)) < MinKeywordLen THEN FALSE
    ELSE IF Len(Strip(kw)) > MaxValidLen THEN FALSE
    ELSE IF ~MatchesKeywordPattern(kw) THEN FALSE
    ELSE TRUE

ValidateAlphabet == {"a", "7", " ", "-", "_", "\t", "\n", "<"}

Repeat(c, n) == [i \in 1..n |-> c]

\* strings around the upper length limit
LongKeywords ==
    {Repeat("a", MaxValidLen - 1), Repeat("a", MaxValidLen),
     Repeat("a", MaxValidLen + 1),
     <<" ">> \o Repeat("a", MaxValidLen) \o <<" ">>,
     Repeat("a", MaxValidLen) \o <<"\n">>,
     Repeat("a", MaxValidLen) \o <<"<">>}

ValidateInputs ==
    UNION {[1..m -> ValidateAlphabet] : m \in 0..MaxValidateLen} \cup LongKeywords

ValidateInit ==
    /\ vk_in = <<>>
    /\ vk_out = NoResult

\* validate_keyword is applied to a string
Validate ==
    /\ ValidateOnly
    /\ \E k \in ValidateInputs :
         /\ vk_in' = k
         /\ vk_out' = Returned(validate_keyword(k))

(***************************************************************************)
(* The routes of app/main.py that create projects and run the engine.  A   *)
(* handler is an async function that never awaits, so a request runs from  *)
(* its first statement to its response without another request in         *)
(* between.                                                                *)
(***************************************************************************)
\* seo_engine.run_full_analysis(kw) as one call; draws holds what the random
\* module hands out during the call and the stage, if any, that raises
run_full_analysis(c_templates, s_templates, kw, draws) ==
    LET outline == _generate_content_outline(c_templates, kw, draws.choice,
                                             draws.word_count)
        markup == _generate_schema_markup(s_templates, kw, outline.title,
                                          draws.schema_type)
        serp == _get_mock_serp_results(kw)
        ents == _extract_entities(kw, serp)
        tfidf == _generate_tfidf_keywords(kw, serp, draws.frequency)
        competitors == _analyze_competitors(serp, draws.strength)
    IN IF draws.fault # None
       THEN ExceptHandler(Exception("Exception", draws.fault)).value
       ELSE IF competitors.raised
       THEN ExceptHandler(competitors.exc).value
       ELSE [status |-> "completed",
             keyword |-> kw,
             analysis |-> [entities |-> ents,
                           tfidf_keywords |-> tfidf,
                           content_outline |-> outline,
                           schema_markup |-> markup],
             serp_results |-> serp,
             competitor_analysis |-> competitors.value]

\* the draws the routes' engine calls follow
WebDraws ==
    [choice : {1}, word_count : {WordCountMin}, schema_type : SchemaTypes,
     frequency : {[i \in 1..Len(RelatedSuffixes) |-> FrequencyMin],
                  [i \in 1..Len(RelatedSuffixes) |-> FrequencyMax]},
     strength : {[i \in 1..SerpCount |-> StrengthMin]},
     fault : {None, "_extract_entities"}]

\* the keyword form field
WebKeywords ==
    { <<"s", "e", "o">>,
      <<"c", "o", "n", "t", "e", "n", "t">>,
      <<"<", "s", "c", "r", "i", "p", "t", ">">>,
      <<"s", "\t", "e">>,
      <<"s">>,
      <<>> }

\* d.get(key, default) and d[key]
Get(d, key, default) == IF key \in DOMAIN d THEN d[key] ELSE default

Subscript(d, key) == IF key \in DOMAIN d THEN Return(d[key]) ELSE Raise(KeyError(key))

\* generate_project_title
generate_project_title(kw) == Title(kw) \o <<" - SEO Analysis">>

Project(kw, project_status) ==
    [keyword |-> kw, title |-> generate_project_title(kw), status |-> project_status]

HTTPException(status_code) == [kind |-> "raise", status_code |-> status_code]

RedirectResponse == [kind |-> "return", status_code |-> 303]

Answer(route, response) ==
    [route |-> route, kind |-> response.kind, status_code |-> response.status_code]

\* a call of seo_engine.run_full_analysis by a route: the project it was made
\* for, the keyword, what the engine returned, and whether the request went
\* on to store an Analysis row
EngineCall(route, project_id, kw, analysis_result, stored) ==
    [kind |-> "call", route |-> route, project_id |-> project_id, keyword |-> kw,
     result |-> analysis_result, stored |-> stored]

\* the outline and the markup /create-project stores when it got none
SkeletonOutline(kw) ==
    <<"# ">> \o Title(kw)
    \o <<"\n\n## Introduction\n\n## Main Content\n\n## Conclusion">>

MinimalMarkup(kw) ==
    <<"{\"@context\": \"https://schema.org\", \"@type\": \"Article\", \"headline\": \"">>
    \o kw \o <<"\"}">>

\* the Analysis row /create-project builds from a completed result
CreateProjectAnalysis(project_id, kw, analysis_result) ==
    LET got_serp == Get(analysis_result, "serp_results", <<>>)
        got_entities == Get(Get(analysis_result, "analysis", <<>>), "entities", <<>>)
        got_keywords == Get(Get(analysis_result, "analysis", <<>>), "tfidf_keywords", <<>>)
        got_outline == Get(analysis_result, "content_outline", <<>>)
        got_markup == Get(analysis_result, "schema_markup", <<>>)
    IN [project_id |-> project_id,
        serp_results |-> got_serp,
        entities |-> IF got_entities = <<>>
                     THEN <<[text |-> kw, label |-> "TOPIC"]>> ELSE got_entities,
        tfidf_keywords |-> IF got_keywords = <<>>
                           THEN <<[keyword |-> kw, score |-> 100]>> ELSE got_keywords,
        competitor_urls |-> got_serp,
        content_outline |->
            IF got_outline = <<>> THEN SkeletonOutline(kw) ELSE got_outline,
        schema_markup |->
            IF got_markup = <<>> THEN MinimalMarkup(kw) ELSE got_markup]

\* the Analysis row /analyze/{project_id} builds from a completed result: the
\* keyword arguments are evaluated in order and a missing key raises
RunAnalysisAnalysis(project_id, analysis_result) ==
    LET got_serp == Subscript(analysis_result, "serp_results")
        got_analysis == Subscript(analysis_result, "analysis")
        got_outline == Subscript(analysis_result, "content_outline")
        got_markup == Subscript(analysis_result, "schema_markup")
    IN IF got_serp.raised THEN got_serp
       ELSE IF got_analysis.raised THEN got_analysis
       ELSE IF got_outline.raised THEN got_outline
       ELSE IF got_markup.raised THEN got_markup
       ELSE Return([project_id |-> project_id,
                    serp_results |-> got_serp.value,
                    entities |-> got_analysis.value.entities,
                    tfidf_keywords |-> got_analysis.value.tfidf_keywords,
                    competitor_urls |-> Get(got_analysis.value, "h2_analysis", <<>>),
                    content_outline |-> got_outline.value,
                    schema_markup |-> got_markup.value])

WebInit ==
    /\ web_projects = <<>>
    /\ web_analyses = <<>>
    /\ web_engine_call = NoResult
    /\ web_response = NoResult

\* POST /create-project with a token that does not verify or names no user:
\* the exception is caught by the handler's except clause and answered 500
PostCreateProjectRejected ==
    /\ WebOnly
    /\ web_response' = Answer("/create-project", HTTPException(500))
    /\ UNCHANGED <<web_projects, web_analyses, web_engine_call>>

\* POST /create-project with a good token: the project is stored, the engine
\* runs on the form's keyword, the analysis is stored if it completed
PostCreateProject ==
    /\ WebOnly
    /\ Len(web_projects) < MaxProjects
    /\ \E kw \in WebKeywords, draws \in WebDraws :
         \* analysis_result = seo_engine.run_full_analysis(keyword)
         \E analysis_result \in
                {run_full_analysis(content_templates, schema_templates, kw, draws)} :
         LET project_id == Len(web_projects) + 1
         IN /\ web_projects' = Append(web_projects, Project(kw, "pending"))
            /\ web_engine_call' =
                   EngineCall("/create-project", project_id, kw, analysis_result,
                              Get(analysis_result, "status", None) = "completed")
            /\ IF Get(analysis_result, "status", None) # "completed"
               THEN /\ web_analyses' = web_analyses
                    /\ web_response' = Answer("/create-project", HTTPException(500))
               ELSE /\ web_analyses' =
                           Append(web_analyses,
                                  CreateProjectAnalysis(project_id, kw, analysis_result))
                    /\ web_response' = Answer("/create-project", RedirectResponse)

\* POST /project
PostProject ==
    /\ WebOnly
    /\ Len(web_projects) < MaxProjects
    /\ \E kw \in WebKeywords :
         IF ~validate_keyword(kw)
         THEN /\ web_response' = Answer("/project", HTTPException(400))
              /\ UNCHANGED <<web_projects, web_analyses, web_engine_call>>
         ELSE /\ web_projects' = Append(web_projects, Project(kw, "pending"))
              /\ web_response' = Answer("/project", RedirectResponse)
              /\ UNCHANGED <<web_analyses, web_engine_call>>

\* POST /analyze/{project_id}
PostAnalyze ==
    /\ WebOnly
    /\ \E project_id \in 1..MaxProjects, draws \in WebDraws :
         IF project_id > Len(web_projects)
         THEN /\ web_response' = Answer("/analyze", HTTPException(404))
              /\ UNCHANGED <<web_projects, web_analyses, web_engine_call>>
         ELSE \* analysis_result = seo_engine.run_full_analysis(project.keyword)
              \E analysis_result \in
                     {run_full_analysis(content_templates, schema_templates,
                                        web_projects[project_id].keyword, draws)} :
              LET kw == web_projects[project_id].keyword
                  analysis == RunAnalysisAnalysis(project_id, analysis_result)
                  SetStatus(v) == [web_projects EXCEPT ![project_id].status = v]
              IN /\ web_engine_call' =
                        EngineCall("/analyze", project_id, kw, analysis_result,
                                   analysis_result.status = "completed"
                                   /\ ~analysis.raised)
                 /\ IF analysis_result.status = "completed"
                    THEN IF analysis.raised
                         THEN /\ web_projects' = SetStatus("failed")
                              /\ web_analyses' = web_analyses
                              /\ web_response' = Answer("/analyze", HTTPException(500))
                         ELSE /\ web_projects' = SetStatus("completed")
                              /\ web_analyses' = Append(web_analyses, analysis.value)
                              /\ web_response' = Answer("/analyze", RedirectResponse)
                    ELSE /\ web_projects' = SetStatus("failed")
                         /\ web_analyses' = web_analyses
                         /\ web_response' = Answer("/analyze", RedirectResponse)

(***************************************************************************)
(* The one SEOEngine instance of app/main.py serving one run_full_analysis *)
(* call after another.  The handlers never await, so two calls on the      *)
(* instance do not overlap: a call is one step.                            *)
(***************************************************************************)
SharedOnly ==
    UNCHANGED <<pc, keyword, content_outline, schema_markup, serp_results, entities,
                tfidf_keywords, exc, raisedIn, result,
                aiVars, mkVars, scVars, vkVars, webVars>>

SharedKeywords ==
    { <<"s", "e", "o">>, <<"a", "i">>, <<"c", "o", "n", "t", "e", "n", "t">> }

SharedInit == sh_calls = <<>>

\* seo_engine.run_full_analysis(kw) on the shared instance, templates included
SharedInvoke ==
    /\ SharedOnly
    /\ Len(sh_calls) < MaxCalls
    /\ \E kw \in SharedKeywords, draws \in WebDraws :
         \E analysis_result \in
                {run_full_analysis(content_templates, schema_templates, kw, draws)} :
         LET title == _generate_content_outline(content_templates, kw, draws.choice,
                                                draws.word_count).title
             outlined == draws.fault \notin {"_analyze_keyword", "_generate_content_outline"}
             marked == outlined /\ draws.fault # "_generate_schema_markup"
         IN /\ sh_calls' = Append(sh_calls, [keyword |-> kw, draws |-> draws,
                                             result |-> analysis_result])
            /\ content_templates' =
                   IF outlined
                   THEN ContentTemplatesAfter(content_templates, kw, draws.choice)
                   ELSE content_templates
            /\ schema_templates' =
                   IF marked
                   THEN SchemaTemplatesAfter(schema_templates, kw, title,
                                             draws.schema_type)
                   ELSE schema_templates

(***************************************************************************)
(* The specifications.                                                     *)
(***************************************************************************)
Init == EngineInit /\ AIInit /\ MarkupInit /\ ScoreInit /\ ValidateInit /\ WebInit
        /\ SharedInit

\* run_full_analysis
Next ==
    \/ Call
    \/ Taken
    \/ AnalyzeKeyword
    \/ GenerateContentOutline
    \/ GenerateSchemaMarkup
    \/ GetMockSerpResults
    \/ ExtractEntities
    \/ GenerateTfidfKeywords
    \/ ReturnCompleted
    \/ StageRaises
    \/ Except

Spec == Init /\ [][Next]_vars

\* run_full_analysis over a SERP stage that can come back with no records
NextProvider == Next \/ SerpYieldsNothing

SpecProvider == Init /\ [][NextProvider]_vars

\* generate_content_outline
NextAI ==
    \/ AICall
    \/ AITaken
    \/ AICheckToken
    \/ AIBuildPrompt
    \/ AIPost
    \/ AIAnswer
    \/ AILocal59
    \/ AIExcept24
    \/ AILocal28

SpecAI == Init /\ [][NextAI]_vars

\* generate_content_outline under fair scheduling of its own statements: the
\* interpreter goes on executing the invocation (every statement moves
\* ai_pc), while nothing obliges a caller to call or the remote service to
\* answer
SpecAILive ==
    /\ SpecAI
    /\ WF_ai_pc(AICheckToken)
    /\ WF_ai_pc(AIBuildPrompt)
    /\ WF_ai_pc(AIPost)
    /\ WF_ai_pc(AILocal59)
    /\ WF_ai_pc(AIExcept24)
    /\ WF_ai_pc(AILocal28)

\* the markup synthesizers
NextMarkup ==
    \/ MarkupPickEngine
    \/ MarkupPickAI
    \/ MarkupEngineCall
    \/ MarkupAICall

SpecMarkup == Init /\ [][NextMarkup]_vars

\* calculate_analysis_score
NextScore ==
    \/ ScoreMoreEntities
    \/ ScoreMoreKeywords
    \/ ScoreMoreSerp
    \/ ScoreLongerOutline

SpecScore == Init /\ [][NextScore]_vars

\* validate_keyword
NextValidate == Validate

SpecValidate == Init /\ [][NextValidate]_vars

\* the shared engine instance
NextShared == SharedInvoke

SpecShared == Init /\ [][NextShared]_vars

\* the routes
NextWeb ==
    \/ PostCreateProjectRejected
    \/ PostCreateProject
    \/ PostProject
    \/ PostAnalyze

SpecWeb == Init /\ [][NextWeb]_vars

(***************************************************************************)
(* The claims.                                                             *)
(***************************************************************************)
\* len(content_outline) > 0 for the dict the outline stage builds
NonEmptyOutline(outline) == TextLen(outline.title) > 0 /\ Len(outline.sections) > 0

\* C1: run_full_analysis never raises to its caller: whatever stage raised,
\* the invocation ends by returning a mapping, and when a stage raised that
\* mapping is not a completed result and carries the exception's message in
\* its error field.
C1_NeverRaises ==
    /\ result.kind # "raise"
    /\ pc = "done" =>
         /\ result.kind = "return"
         /\ raisedIn # None =>
              /\ result.value.status # "completed"
              /\ "error" \in DOMAIN result.value
              /\ result.value.error = str(exc)

C1_Witness ==
    /\ pc = "done"
    /\ keyword = <<>>
    /\ raisedIn = "_extract_entities"
    /\ result.kind = "return"
    /\ result.value.error = "_extract_entities"

C4_PrimaryFailureCaught ==
    /\ ai_result.kind = "raise" => ai_raisedIn = "local28"
    /\ (ai_pc = "done" /\ ai_failure # "none") => ai_localCalls >= 1

C4_Witness ==
    /\ ai_pc = "done"
    /\ ai_failure = "prompt"
    /\ ai_raisedIn = "prompt"
    /\ ai_localCalls = 1
    /\ ai_result.kind = "return"

\* C5: the outline that generate_content_outline returns is never empty.
C5_NeverEmptyOutline ==
    (ai_pc = "done" /\ ai_result.kind = "return") => TextLen(ai_result.value) > 0

\* the scored keywords have the shape _generate_tfidf_keywords produces
EngineShaped(kws) ==
    \A i \in 1..Len(kws) : DOMAIN kws[i] = {"term", "score", "frequency"}

\* C6: the local fallback always succeeds on scored keywords of the shape
\* {term, score, frequency}: an invocation that reached it returns an
\* outline.
C6_LocalOutlineSucceeds ==
    (ai_pc = "done" /\ ai_localCalls > 0 /\ EngineShaped(ai_keywords)) =>
        ai_result.kind = "return"

C8_SortedNoDuplicates ==
    \A i, j \in 1..Len(tfidf_keywords) :
        i < j => /\ tfidf_keywords[i].score >= tfidf_keywords[j].score
                 /\ tfidf_keywords[i].term # tfidf_keywords[j].term

C8_Witness ==
    /\ pc = "done"
    /\ keyword = <<"s", "e", "o">>
    /\ Len(tfidf_keywords) = Len(RelatedSuffixes)
    /\ result.kind = "return"
    /\ result.value.status = "completed"

\* C9: no entity of a returned result has an empty text.
C9_NoEmptyEntityText ==
    (pc = "done" /\ result.kind = "return" /\ result.value.status = "completed") =>
        \A i \in 1..Len(result.value.analysis.entities) :
            Len(result.value.analysis.entities[i].text) > 0

\* C10: the score is an integer in [0, 100] and never falls when one of the
\* four sizes grows while the other three stay as they are.
C10_MonotonicBounded ==
    /\ [](sc_score \in 0..100)
    /\ [][sc_score' >= sc_score]_vars

C10_Witness ==
    /\ sc_in.entities >= 10
    /\ sc_in.content_outline > 500
    /\ sc_score = 100

\* C14: within one invocation the outline and the markup are never generated
\* before the SERP results, the entities and the scored keywords of that
\* invocation exist.
C14_OutlineAfterAnalysis ==
    (content_outline # NoOutline \/ schema_markup # <<>>) =>
        (serp_results # <<>> /\ entities # <<>> /\ tfidf_keywords # <<>>)

\* C15: the remote call is bounded: an invocation that has made it reaches
\* its end even if the remote service never answers.
C15_RemoteCallBounded == (ai_pc = "await") ~> (ai_pc = "done")

\* json.loads(text).keys(): the keys of the outermost object of a serialized
\* mapping, read off the text
RECURSIVE KeysFrom(_, _, _)
KeysFrom(text, i, depth) ==
    IF i > Len(text) THEN {}
    ELSE LET inner == IF text[i] \in {"{", "["} THEN depth + 1
                      ELSE IF text[i] \in {"}", "]"} THEN depth - 1
                      ELSE depth
         IN (IF depth = 1 /\ text[i] = "\": " THEN {text[i - 1]} ELSE {})
            \cup KeysFrom(text, i + 1, inner)

TopLevelKeys(text) == KeysFrom(text, 1, 0)

RequiredFields ==
    {"@context", "@type", "headline", "description", "keywords", "author",
     "publisher", "datePublished"}

\* C16: every schema markup the pipeline returns, whichever template was
\* chosen, is a mapping with all of the fields @context, @type, headline,
\* description, keywords, author, publisher and datePublished.
C16_MarkupHasAllFields ==
    (pc = "done" /\ result.kind = "return" /\ result.value.status = "completed") =>
        RequiredFields \subseteq TopLevelKeys(result.value.analysis.schema_markup)

\* C17: the entities the extractor returns hold no two entries with the same
\* text and category (the set-like half of the claim; the other half orders
\* them by first occurrence).
C17_NoDuplicateEntities ==
    \A i, j \in 1..Len(entities) :
        (i < j) => ~(/\ entities[i].text = entities[j].text
                     /\ entities[i].type = entities[j].type)

\* C18: one invocation makes at most one remote request, none when no
\* credential is configured, and after a failed attempt it has produced the
\* local fallback exactly once and not retried the request.
C18_SingleAttempt ==
    /\ ai_remoteCalls <= 1
    /\ ~ai_token => ai_remoteCalls = 0
    /\ (ai_pc = "done" /\ ai_failure \in {"network", "status", "payload"}) =>
          (ai_remoteCalls = 1 /\ ai_localCalls = 1)

C18_Witness ==
    /\ ai_pc = "done"
    /\ ai_failure = "status"
    /\ ai_remoteCalls = 1
    /\ ai_localCalls = 1
    /\ ai_result.kind = "return"

\* the part of a text between the line that ends with `before` and the next
\* piece of fixed text `after`
Between(text, before, after) ==
    LET p == CHOOSE i \in 1..Len(text) : text[i] = before
        q == CHOOSE i \in (p + 1)..Len(text) :
                 /\ text[i] = after
                 /\ \A j \in (p + 1)..(i - 1) : text[j] # after
    IN SubSeq(text, p + 1, q - 1)

\* the i-th bullet of the Key Features section of an outline
KeyFeature(text, i) ==
    CASE i = 1 -> Between(text, ".\n\n## Key Features and Benefits\n- ",
                          ": Essential aspect of ")
      [] i = 2 -> Between(text, "\n- ", ": Important consideration for users\n- ")
      [] i = 3 -> Between(text, ": Important consideration for users\n- ",
                          ": Critical factor in decision making\n\n## Top Options and Comparisons\n- ")

\* the i-th bullet of the Top Options section of an outline
TopOption(text, i) ==
    CASE i = 1 -> Between(text,
                          ": Critical factor in decision making\n\n## Top Options and Comparisons\n- ",
                          ": Leading choice in the market\n- ")
      [] i = 2 -> Between(text, ": Leading choice in the market\n- ",
                          ": Popular alternative with unique benefits\n- ")
      [] i = 3 -> Between(text, ": Popular alternative with unique benefits\n- ",
                          ": Emerging option worth considering\n\n## Detailed Analysis\n### ")

RubricPoints(n, tiers) ==
    IF \E i \in 1..Len(tiers) : n >= tiers[i][1]
    THEN tiers[CHOOSE i \in 1..Len(tiers) :
                   /\ n >= tiers[i][1]
                   /\ \A j \in 1..Len(tiers) : n >= tiers[j][1] => i <= j][2]
    ELSE 0

\* the rubric: a length above 500, 200, 50 is a length of at least 501, 201, 51
RubricSum(analysis) ==
    RubricPoints(analysis.entities, <<<<10, 30>>, <<5, 20>>, <<2, 10>>>>)
    + RubricPoints(analysis.tfidf_keywords, <<<<20, 30>>, <<10, 20>>, <<5, 10>>>>)
    + RubricPoints(analysis.total_results, <<<<8, 20>>, <<5, 15>>, <<2, 10>>>>)
    + RubricPoints(analysis.content_outline, <<<<501, 20>>, <<201, 15>>, <<51, 10>>>>)

\* C11: for every combination of entity count, scored-keyword count, SERP
\* result count and outline length, the score is the sum of the four band
\* contributions of the rubric, the highest matching tier of each band only,
\* capped at 100.
C11_ScoreIsRubricSum ==
    sc_score = (IF RubricSum(sc_in) > 100 THEN 100 ELSE RubricSum(sc_in))

C11_Witness ==
    /\ sc_in = [entities |-> 5, tfidf_keywords |-> 10, total_results |-> 5,
                content_outline |-> 201]
    /\ sc_score = 70

\* C12: on every route that calls seo_engine.run_full_analysis, the keyword
\* handed to the engine satisfies validate_keyword.
C12_EngineKeywordValid ==
    web_engine_call.kind = "call" => validate_keyword(web_engine_call.keyword)

\* the characters the keyword contract allows: alphanumerics, spaces, hyphens
\* and underscores
AllowedChar(c) == c \in AsciiLetters \cup Digits \cup {" ", "-", "_"}

\* C13: validate_keyword returns True exactly for the strings that are 2 to
\* 100 characters long and consist only of alphanumerics, spaces, hyphens and
\* underscores; every other string is rejected.
C13_ValidExactly ==
    vk_out.kind = "return" =>
        (vk_out.value <=> /\ Len(vk_in) >= 2
                          /\ Len(vk_in) <= 100
                          /\ \A i \in 1..Len(vk_in) : AllowedChar(vk_in[i]))

\* C21: when POST /analyze/{project_id} on an existing project has finished,
\* the project's status is 'completed' with an Analysis row stored if
\* run_full_analysis returned status completed, and 'failed' with no Analysis
\* row stored otherwise; it is never left at 'processing'.
C21_AnalyzeSettlesStatus ==
    (web_engine_call.kind = "call" /\ web_engine_call.route = "/analyze") =>
        LET project == web_projects[web_engine_call.project_id] IN
        /\ project.status # "processing"
        /\ IF web_engine_call.result.status = "completed"
           THEN project.status = "completed" /\ web_engine_call.stored
           ELSE project.status = "failed" /\ ~web_engine_call.stored

C23_AnalysedIsCompleted ==
    /\ \A i \in 1..Len(web_analyses) :
          web_projects[web_analyses[i].project_id].status = "completed"
    /\ \A i, j \in 1..Len(web_analyses) :
          i < j => web_analyses[i].project_id # web_analyses[j].project_id

====
